---- MODULE Spec2Model ----
(***************************************************************************)
(* Restaurant recommender: the deterministic retrieval engine (phase_2),   *)
(* the grounded LLM layer (phase_3) and the HTTP endpoint (phase_4).       *)
(*                                                                         *)
(* Text is modelled at two grains.  A Python str whose characters matter   *)
(* (a locality, a cuisine text, a reason) is a sequence of one-character   *)
(* strings.  The reply text of the reasoning service is a sequence of      *)
(* lexical tokens: the punctuation of JSON, JSON literals, and the word    *)
(* "p" for any run of prose that is not JSON.                              *)
(***************************************************************************)
EXTENDS Integers, Sequences, FiniteSets, TLC

VARIABLES pc, prefs, df, max_results, filtered, candidates, messages,
          api_key, svc, raw_text, results, error, net_calls, http, seen,
          heap, workers

vars == <<pc, prefs, df, max_results, filtered, candidates, messages,
          api_key, svc, raw_text, results, error, net_calls, http, seen,
          heap, workers>>

-----------------------------------------------------------------------------
(* Python str operations on sequences of characters.                       *)

\* str.lower() on the characters the model uses.
LowerChar(c) ==
  CASE c = "A" -> "a" [] c = "B" -> "b" [] c = "C" -> "c" [] c = "D" -> "d"
    [] c = "E" -> "e" [] c = "H" -> "h" [] c = "I" -> "i" [] c = "M" -> "m"
    [] c = "N" -> "n" [] c = "R" -> "r" [] c = "S" -> "s" [] c = "T" -> "t"
    [] c = "W" -> "w"
    [] OTHER -> c

Lower(s) == [i \in 1..Len(s) |-> LowerChar(s[i])]

IsSpace(c) == c = " "

RECURSIVE LStrip(_)
LStrip(s) ==
  IF s # <<>> /\ IsSpace(s[1]) THEN LStrip(Tail(s)) ELSE s

RECURSIVE RStrip(_)
RStrip(s) ==
  IF s # <<>> /\ IsSpace(s[Len(s)]) THEN RStrip(SubSeq(s, 1, Len(s) - 1)) ELSE s

\* str.strip()
Strip(s) == RStrip(LStrip(s))

-----------------------------------------------------------------------------
(* Python values, as json.loads builds them.  k is the Python type, a the  *)
(* literal token of an atom, kids the elements of a list or the            *)
(* (key, value) pairs of a dict in document order.                         *)

Atom(k, tok) == [k |-> k, a |-> tok, kids |-> <<>>]
PyNone == Atom("NoneType", "null")
PyList(elems) == [k |-> "list", a |-> "", kids |-> elems]
PyDict(pairs) == [k |-> "dict", a |-> "", kids |-> pairs]

StringToks == {"\"recommendations\"", "\"candidate_index\"", "\"reason\"",
               "\"other\"", "\"ok\"", "\" ok \"", "\"\"", "\"1\"", "\" 2 \"",
               "\"abc\"", "\"1.5\""}
IntToks == {"-1", "0", "1", "2", "3", "4", "7"}
FloatToks == {"1.5", "-0.5", "2.0", "Infinity", "NaN"}

\* The characters of a JSON string literal (what py_scanstring returns), for
\* the literals that occur as values.
StrContent(tok) ==
  CASE tok = "\"reason\"" -> <<"r", "e", "a", "s", "o", "n">>
    [] tok = "\"other\"" -> <<"o", "t", "h", "e", "r">>
    [] tok = "\"ok\"" -> <<"o", "k">>
    [] tok = "\" ok \"" -> <<" ", "o", "k", " ">>
    [] tok = "\"\"" -> <<>>
    [] tok = "\"1\"" -> <<"1">>
    [] tok = "\" 2 \"" -> <<" ", "2", " ">>
    [] tok = "\"abc\"" -> <<"a", "b", "c">>
    [] tok = "\"1.5\"" -> <<"1", ".", "5">>
    [] OTHER -> <<>>

\* The value of a JSON integer literal.
IntVal(tok) ==
  CASE tok = "-1" -> -1
    [] tok = "0" -> 0
    [] tok = "1" -> 1
    [] tok = "2" -> 2
    [] tok = "3" -> 3
    [] tok = "4" -> 4
    [] tok = "7" -> 7
    [] OTHER -> 0

\* The value of a finite JSON float literal, in tenths.
FloatTenths(tok) ==
  CASE tok = "1.5" -> 15
    [] tok = "-0.5" -> -5
    [] tok = "2.0" -> 20
    [] OTHER -> 0

-----------------------------------------------------------------------------
(* json.loads on a token sequence (json.decoder / json.scanner).           *)

ScanOk(val, pos) == [ok |-> TRUE, val |-> val, pos |-> pos, msg |-> ""]
ScanErr(msg, pos) == [ok |-> FALSE, val |-> PyNone, pos |-> pos, msg |-> msg]

RECURSIVE ScanOnce(_, _)
RECURSIVE ObjMembers(_, _, _)
RECURSIVE ArrElems(_, _, _)

\* JSONObject: i is the position after the opening brace.
JSONObject(s, i) ==
  IF i <= Len(s) /\ s[i] = "}" THEN ScanOk(PyDict(<<>>), i + 1)
  ELSE IF i > Len(s) \/ s[i] \notin StringToks
    THEN ScanErr("Expecting property name enclosed in double quotes", i)
    ELSE ObjMembers(s, i, <<>>)

\* The member loop of JSONObject: s[i] is a key.
ObjMembers(s, i, acc) ==
  IF i + 1 > Len(s) \/ s[i + 1] # ":" THEN ScanErr("Expecting ':' delimiter", i + 1)
  ELSE
    LET v == ScanOnce(s, i + 2) IN
    IF ~v.ok THEN v
    ELSE
      LET j == v.pos
          pairs == Append(acc, [key |-> s[i], val |-> v.val])
      IN
      IF j <= Len(s) /\ s[j] = "}" THEN ScanOk(PyDict(pairs), j + 1)
      ELSE IF j > Len(s) \/ s[j] # "," THEN ScanErr("Expecting ',' delimiter", j)
      ELSE IF j + 1 > Len(s) \/ s[j + 1] \notin StringToks
        THEN ScanErr("Expecting property name enclosed in double quotes", j + 1)
        ELSE ObjMembers(s, j + 1, pairs)

\* JSONArray: i is the position after the opening bracket.
JSONArray(s, i) ==
  IF i <= Len(s) /\ s[i] = "]" THEN ScanOk(PyList(<<>>), i + 1)
  ELSE ArrElems(s, i, <<>>)

\* The element loop of JSONArray: an element is expected at i.
ArrElems(s, i, acc) ==
  LET v == ScanOnce(s, i) IN
  IF ~v.ok THEN v
  ELSE
    LET j == v.pos
        elems == Append(acc, v.val)
    IN
    IF j <= Len(s) /\ s[j] = "]" THEN ScanOk(PyList(elems), j + 1)
    ELSE IF j > Len(s) \/ s[j] # "," THEN ScanErr("Expecting ',' delimiter", j)
    ELSE ArrElems(s, j + 1, elems)

\* scan_once: one JSON value starting at position i.
ScanOnce(s, i) ==
  IF i > Len(s) THEN ScanErr("Expecting value", i)
  ELSE
    LET t == s[i] IN
    CASE t = "{" -> JSONObject(s, i + 1)
      [] t = "[" -> JSONArray(s, i + 1)
      [] t \in StringToks -> ScanOk(Atom("str", t), i + 1)
      [] t \in IntToks -> ScanOk(Atom("int", t), i + 1)
      [] t \in FloatToks -> ScanOk(Atom("float", t), i + 1)
      [] t \in {"true", "false"} -> ScanOk(Atom("bool", t), i + 1)
      [] t = "null" -> ScanOk(PyNone, i + 1)
      [] OTHER -> ScanErr("Expecting value", i)

\* json.loads: one value, then nothing.
JsonLoads(s) ==
  LET r == ScanOnce(s, 1) IN
  IF r.ok /\ r.pos <= Len(s) THEN ScanErr("Extra data", r.pos) ELSE r

-----------------------------------------------------------------------------
(* Python built-ins used by the parser.                                    *)

\* dict.get(key, default): the last pair with the key wins, as in dict(pairs).
RECURSIVE DictGetFrom(_, _, _, _)
DictGetFrom(pairs, i, key, default) ==
  IF i = 0 THEN default
  ELSE IF pairs[i].key = key THEN pairs[i].val
  ELSE DictGetFrom(pairs, i - 1, key, default)

DictGet(d, key, default) == DictGetFrom(d.kids, Len(d.kids), key, default)

DigitChars == {"0", "1", "2", "3", "4", "5", "6", "7", "8", "9"}

DigitVal(c) ==
  CASE c = "0" -> 0 [] c = "1" -> 1 [] c = "2" -> 2 [] c = "3" -> 3
    [] c = "4" -> 4 [] c = "5" -> 5 [] c = "6" -> 6 [] c = "7" -> 7
    [] c = "8" -> 8 [] c = "9" -> 9 [] OTHER -> 0

RECURSIVE DigitsVal(_)
DigitsVal(ds) ==
  IF ds = <<>> THEN 0
  ELSE 10 * DigitsVal(SubSeq(ds, 1, Len(ds) - 1)) + DigitVal(ds[Len(ds)])

IntOk(v) == [exc |-> "", v |-> v]
IntExc(cls) == [exc |-> cls, v |-> 0]

\* int(str): surrounding whitespace stripped, an optional sign, then digits.
IntOfChars(chars) ==
  LET t == Strip(chars)
      signed == t # <<>> /\ t[1] \in {"+", "-"}
      ds == IF signed THEN Tail(t) ELSE t
  IN
  IF ds = <<>> \/ \E i \in 1..Len(ds) : ds[i] \notin DigitChars
    THEN IntExc("ValueError")
    ELSE IntOk(IF signed /\ t[1] = "-" THEN 0 - DigitsVal(ds) ELSE DigitsVal(ds))

\* int(x) on a Python value.
PyInt(x) ==
  CASE x.k = "int" -> IntOk(IntVal(x.a))
    [] x.k = "bool" -> IntOk(IF x.a = "true" THEN 1 ELSE 0)
    [] x.k = "float" ->
         IF x.a = "Infinity" THEN IntExc("OverflowError")
         ELSE IF x.a = "NaN" THEN IntExc("ValueError")
         ELSE LET t == FloatTenths(x.a) IN
              IntOk(IF t < 0 THEN 0 - ((0 - t) \div 10) ELSE t \div 10)
    [] x.k = "str" -> IntOfChars(StrContent(x.a))
    [] OTHER -> IntExc("TypeError")

\* str(x) on a Python value; exact for atoms and for empty containers.
PyStr(x) ==
  CASE x.k = "str" -> StrContent(x.a)
    [] x.k = "NoneType" -> <<"N", "o", "n", "e">>
    [] x.k = "bool" ->
         IF x.a = "true" THEN <<"T", "r", "u", "e">>
         ELSE <<"F", "a", "l", "s", "e">>
    [] x.k = "int" ->
         IF IntVal(x.a) < 0 THEN <<"-", "1">> ELSE <<x.a>>
    [] x.k = "float" ->
         CASE x.a = "Infinity" -> <<"i", "n", "f">>
           [] x.a = "NaN" -> <<"n", "a", "n">>
           [] x.a = "1.5" -> <<"1", ".", "5">>
           [] x.a = "-0.5" -> <<"-", "0", ".", "5">>
           [] OTHER -> <<"2", ".", "0">>
    [] x.k = "list" -> <<"[", "]">>
    [] OTHER -> <<"{", "}">>

-----------------------------------------------------------------------------
(* The dataset (phase_2/retrieval.py).  A cell of the CSV frame is a str,  *)
(* an int, or the missing value NaN.  A float is a record: k is "num" or   *)
(* "nan", t the value in tenths.                                           *)

StrCell(chars) == [ty |-> "str", s |-> chars, n |-> 0]
IntCell(n) == [ty |-> "int", s |-> <<>>, n |-> n]
NaNCell == [ty |-> "nan", s |-> <<>>, n |-> 0]

Num(t) == [k |-> "num", t |-> t]
NaN == [k |-> "nan", t |-> 0]

\* Python float comparison: every comparison with nan is false.
FloatGe(a, b) == a.k = "num" /\ b.k = "num" /\ a.t >= b.t
FloatLe(a, b) == a.k = "num" /\ b.k = "num" /\ a.t <= b.t

\* str.upper() on the characters the model uses.
UpperChar(c) ==
  CASE c = "a" -> "A" [] c = "b" -> "B" [] c = "c" -> "C" [] c = "d" -> "D"
    [] c = "e" -> "E" [] c = "h" -> "H" [] c = "i" -> "I" [] c = "m" -> "M"
    [] c = "n" -> "N" [] c = "r" -> "R" [] c = "s" -> "S" [] c = "t" -> "T"
    [] c = "w" -> "W"
    [] OTHER -> c

Upper(s) == [i \in 1..Len(s) |-> UpperChar(s[i])]

\* str.replace(c, "")
RECURSIVE RemoveChar(_, _)
RemoveChar(s, c) ==
  IF s = <<>> THEN <<>>
  ELSE IF s[1] = c THEN RemoveChar(Tail(s), c)
  ELSE <<s[1]>> \o RemoveChar(Tail(s), c)

\* str.split(c)[0]
RECURSIVE SplitHead(_, _)
SplitHead(s, c) ==
  IF s = <<>> \/ s[1] = c THEN <<>> ELSE <<s[1]>> \o SplitHead(Tail(s), c)

FloatOk(f) == [ok |-> TRUE, f |-> f]
FloatFail == [ok |-> FALSE, f |-> Num(0)]

\* float(str): stripped, an optional sign, then "nan" in any case, or digits
\* with at most one fractional digit.
FloatOfChars(chars) ==
  LET t == Strip(chars)
      signed == t # <<>> /\ t[1] \in {"+", "-"}
      body == IF signed THEN Tail(t) ELSE t
      whole == SplitHead(body, ".")
      frac == IF Len(whole) < Len(body) THEN SubSeq(body, Len(whole) + 2, Len(body)) ELSE <<>>
      digits == whole \o frac
      mag == 10 * DigitsVal(whole) + DigitsVal(frac)
  IN
  IF Lower(body) = <<"n", "a", "n">> THEN FloatOk(NaN)
  ELSE IF digits = <<>> \/ Len(frac) > 1
          \/ \E i \in 1..Len(digits) : digits[i] \notin DigitChars
    THEN FloatFail
    ELSE FloatOk(Num(IF signed /\ t[1] = "-" THEN 0 - mag ELSE mag))

_parse_rating(raw) ==
  IF raw.ty # "str" THEN Num(0)
  ELSE
    LET text == Upper(Strip(raw.s)) IN
    IF text = <<"N", "E", "W">> \/ text = <<"-">> \/ text = <<>> THEN Num(0)
    ELSE
      LET r == FloatOfChars(Strip(SplitHead(text, "/"))) IN
      IF r.ok THEN r.f ELSE Num(0)

_parse_price(raw) ==
  CASE raw.ty = "str" ->
         LET r == FloatOfChars(Strip(RemoveChar(raw.s, ","))) IN
         IF r.ok THEN r.f ELSE Num(0)
    [] raw.ty = "int" -> Num(10 * raw.n)
    [] OTHER -> NaN

_parse_votes(raw) ==
  CASE raw.ty = "str" ->
         LET r == IntOfChars(Strip(RemoveChar(raw.s, ","))) IN
         IF r.exc = "" THEN r.v ELSE 0
    [] raw.ty = "int" -> raw.n
    [] OTHER -> 0

\* Series.astype(str): the missing value becomes the text "nan".
AsTypeStr(cell) ==
  CASE cell.ty = "str" -> cell.s
    [] cell.ty = "nan" -> <<"n", "a", "n">>
    [] OTHER -> <<"0">>

\* The rows of data/raw/zomato_raw.csv as pd.read_csv returns them.
RawRows == <<
  [name |-> <<"A">>, rate |-> StrCell(<<"4", ".", "1", "/", "5">>),
   votes |-> IntCell(100), location |-> StrCell(<<"B", "T", "M">>),
   cuisines |-> StrCell(<<"n", "i">>), cost |-> StrCell(<<"3", "0", "0">>)],
  [name |-> <<"B">>, rate |-> StrCell(<<"3", ".", "9", " ", "/", "5">>),
   votes |-> IntCell(50), location |-> StrCell(<<"H", "S", "R">>),
   cuisines |-> StrCell(<<"c", "h">>), cost |-> StrCell(<<"1", ",", "2", "0", "0">>)],
  [name |-> <<"C">>, rate |-> StrCell(<<"N", "E", "W">>),
   votes |-> IntCell(0), location |-> NaNCell,
   cuisines |-> StrCell(<<"n", "i", ",", " ", "c", "h">>), cost |-> NaNCell],
  [name |-> <<"D">>, rate |-> StrCell(<<"4", ".", "1", "/", "5">>),
   votes |-> IntCell(100), location |-> StrCell(<<"B", "T", "M">>),
   cuisines |-> NaNCell, cost |-> StrCell(<<"3", "0", "0">>)],
  [name |-> <<"E">>, rate |-> StrCell(<<"4", ".", "1", "/", "5">>),
   votes |-> IntCell(100), location |-> StrCell(<<"H", "S", "R">>),
   cuisines |-> StrCell(<<"c", "h">>), cost |-> StrCell(<<"2", "0", "0">>)] >>

\* One row of the prepared frame: the raw row r (row i of the CSV) and the
\* helper columns.
PrepareRow(r, i) ==
  [id |-> i, name |-> r.name, location |-> r.location, cuisines |-> r.cuisines,
   rating_numeric |-> _parse_rating(r.rate),
   price_for_two_numeric |-> _parse_price(r.cost),
   votes_numeric |-> _parse_votes(r.votes),
   location_normalized |-> Lower(AsTypeStr(r.location)),
   cuisines_normalized |-> Lower(AsTypeStr(r.cuisines))]

PreparedRow(i) == PrepareRow(RawRows[i], i)

load_prepared_dataframe == [i \in 1..Len(RawRows) |-> PreparedRow(i)]

-----------------------------------------------------------------------------
(* Preferences (phase_2/models.py).  An Optional field is a record: some   *)
(* is FALSE for None.                                                      *)

None == [some |-> FALSE]
Some(v) == [some |-> TRUE, v |-> v]

UserPreferences(min_price, max_price, locality, min_rating, desired_cuisines) ==
  [min_price |-> min_price, max_price |-> max_price, locality |-> locality,
   min_rating |-> min_rating, desired_cuisines |-> desired_cuisines]

-----------------------------------------------------------------------------
(* Series.str.contains(pat, na=False): pat is compiled as a regular        *)
(* expression and searched in each value.  The fragment of the syntax:     *)
(* literal characters, "." (any character) and plain groups "(" ")".       *)

RECURSIVE RegexScan(_, _, _)
\* re.compile(pat) from character i on, opens being the 0-based positions of
\* the groups still open: the message and position of the re.error it
\* raises, or an empty message.  A ")" that closes nothing is reported where
\* it stands; a group still open at the end is reported, innermost first, at
\* its "(".
RegexScan(pat, i, opens) ==
  IF i > Len(pat) THEN
    IF opens = <<>> THEN [msg |-> "", pos |-> 0]
    ELSE [msg |-> "missing ), unterminated subpattern", pos |-> opens[Len(opens)]]
  ELSE IF pat[i] = "(" THEN RegexScan(pat, i + 1, Append(opens, i - 1))
  ELSE IF pat[i] = ")" THEN
    IF opens = <<>> THEN [msg |-> "unbalanced parenthesis", pos |-> i - 1]
    ELSE RegexScan(pat, i + 1, SubSeq(opens, 1, Len(opens) - 1))
  ELSE RegexScan(pat, i + 1, opens)

\* re.compile(pat) succeeds.
RegexCompiles(pat) == RegexScan(pat, 1, <<>>).msg = ""

\* pat.search(text) is not None, for a pattern that compiles.
RegexSearch(pat, text) ==
  LET p == RemoveChar(RemoveChar(pat, "("), ")") IN
  \E o \in 0..Len(text) :
    /\ o + Len(p) <= Len(text)
    /\ \A i \in 1..Len(p) : p[i] = "." \/ p[i] = text[o + i]

\* Python truthiness of an Optional str or list.
Truthy(opt) == opt.some /\ opt.v # <<>>

\* [c.strip().lower() for c in desired_cuisines if c.strip()]
RECURSIVE CuisineTerms(_)
CuisineTerms(cs) ==
  IF cs = <<>> THEN <<>>
  ELSE IF Strip(cs[1]) # <<>> THEN <<Lower(Strip(cs[1]))>> \o CuisineTerms(Tail(cs))
  ELSE CuisineTerms(Tail(cs))

FrameOk(rows) == [exc |-> "", msg |-> "", pos |-> 0, rows |-> rows]
\* re.error raised by re.compile(pat) inside str.contains.
FrameExc(pat) ==
  [exc |-> "re.error", msg |-> RegexScan(pat, 1, <<>>).msg,
   pos |-> RegexScan(pat, 1, <<>>).pos, rows |-> <<>>]

\* filter_restaurants: the rows that pass every active filter, in input
\* order; re.error when a locality or a cuisine term does not compile.
filter_restaurants(frame, p) ==
  LET MinPrice(r) == FloatGe(r.price_for_two_numeric, Num(p.min_price.v))
      MaxPrice(r) == FloatLe(r.price_for_two_numeric, Num(p.max_price.v))
      loc == Lower(Strip(p.locality.v))
      Locality(r) == RegexSearch(loc, r.location_normalized)
      MinRating(r) == FloatGe(r.rating_numeric, Num(p.min_rating.v))
      cuisine_terms == CuisineTerms(p.desired_cuisines.v)
      Cuisine(r) == \E k \in 1..Len(cuisine_terms) :
                      RegexSearch(cuisine_terms[k], r.cuisines_normalized)
      f1 == IF p.min_price.some THEN SelectSeq(frame, MinPrice) ELSE frame
      f2 == IF p.max_price.some THEN SelectSeq(f1, MaxPrice) ELSE f1
      f3 == IF Truthy(p.locality) THEN SelectSeq(f2, Locality) ELSE f2
      f4 == IF p.min_rating.some THEN SelectSeq(f3, MinRating) ELSE f3
      f5 == IF Truthy(p.desired_cuisines) /\ cuisine_terms # <<>>
              THEN SelectSeq(f4, Cuisine) ELSE f4
  IN
  IF Truthy(p.locality) /\ ~RegexCompiles(loc) THEN FrameExc(loc)
  ELSE IF Truthy(p.desired_cuisines)
          /\ \E k \in 1..Len(cuisine_terms) : ~RegexCompiles(cuisine_terms[k])
    THEN LET first == CHOOSE k \in 1..Len(cuisine_terms) :
                        /\ ~RegexCompiles(cuisine_terms[k])
                        /\ \A j \in 1..(k - 1) : RegexCompiles(cuisine_terms[j])
         IN FrameExc(cuisine_terms[first])
    ELSE FrameOk(f5)

-----------------------------------------------------------------------------
(* rank_restaurants.                                                       *)

\* log1p(v) in thousandths, rounded down, for the vote counts of the dataset.
Log1p(v) ==
  CASE v = 0 -> 0
    [] v = 50 -> 3931
    [] v = 100 -> 4615
    [] OTHER -> 0

Max(a, b) == IF a >= b THEN a ELSE b
Min(a, b) == IF a <= b THEN a ELSE b

\* rating_numeric * 2.0 + log1p(max(votes_numeric, 0)), in thousandths.
Score(r) ==
  IF r.rating_numeric.k = "nan" THEN NaN
  ELSE Num(200 * r.rating_numeric.t + Log1p(Max(r.votes_numeric, 0)))

\* A variant that sorts every key descending.
KeyOrder_Descending(a, b, ascending) ==
  CASE a.k = "nan" /\ b.k = "nan" -> 0
    [] a.k = "nan" -> 1
    [] b.k = "nan" -> -1
    [] a.t = b.t -> 0
    [] OTHER -> IF a.t > b.t THEN -1 ELSE 1

\* The order of one sort key: -1 when a sorts first, 1 when b does, 0 on a
\* tie.  NaN sorts last in either direction (na_position="last").
KeyOrder(a, b, ascending) ==
  CASE a.k = "nan" /\ b.k = "nan" -> 0
    [] a.k = "nan" -> 1
    [] b.k = "nan" -> -1
    [] a.t = b.t -> 0
    [] OTHER -> IF (a.t < b.t) = ascending THEN -1 ELSE 1

\* a sorts strictly before b by score, rating, votes descending and price
\* ascending.
SortsBefore(a, b) ==
  LET k1 == KeyOrder(Score(a), Score(b), FALSE)
      k2 == KeyOrder(a.rating_numeric, b.rating_numeric, FALSE)
      k3 == KeyOrder(Num(a.votes_numeric), Num(b.votes_numeric), FALSE)
      k4 == KeyOrder(a.price_for_two_numeric, b.price_for_two_numeric, TRUE)
  IN
  \/ k1 = -1
  \/ k1 = 0 /\ k2 = -1
  \/ k1 = 0 /\ k2 = 0 /\ k3 = -1
  \/ k1 = 0 /\ k2 = 0 /\ k3 = 0 /\ k4 = -1

\* DataFrame.sort_values on several keys is a stable sort: rows that tie on
\* every key keep their input order.
RECURSIVE InsertSorted(_, _)
InsertSorted(sorted, r) ==
  IF sorted = <<>> THEN <<r>>
  ELSE IF SortsBefore(r, sorted[1]) THEN <<r>> \o sorted
  ELSE <<sorted[1]>> \o InsertSorted(Tail(sorted), r)

RECURSIVE sort_values(_)
sort_values(frame) ==
  IF frame = <<>> THEN <<>>
  ELSE InsertSorted(sort_values(SubSeq(frame, 1, Len(frame) - 1)), frame[Len(frame)])

\* DataFrame.head(n)
Head_(frame, n) ==
  IF n >= 0 THEN SubSeq(frame, 1, Min(n, Len(frame)))
  ELSE SubSeq(frame, 1, Max(Len(frame) + n, 0))

\* The Restaurant built from a row; id stands for the identity of the object.
Restaurant(row) ==
  [id |-> row.id, name |-> row.name, location |-> AsTypeStr(row.location),
   price_for_two |-> row.price_for_two_numeric, rating |-> row.rating_numeric,
   cuisines |-> AsTypeStr(row.cuisines), votes |-> row.votes_numeric]

\* rank_restaurants(df, max_results=limit)
rank_restaurants(frame, limit) ==
  IF frame = <<>> THEN <<>>
  ELSE LET df_sorted == Head_(sort_values(frame), limit) IN
       [i \in 1..Len(df_sorted) |-> Restaurant(df_sorted[i])]

\* get_recommendations, given the frame load_prepared_dataframe returned.
get_recommendations(frame, p, limit) ==
  LET f == filter_restaurants(frame, p) IN
  IF f.exc # "" THEN [exc |-> f.exc, msg |-> f.msg, pos |-> f.pos, candidates |-> <<>>]
  ELSE [exc |-> "", msg |-> "", pos |-> 0, candidates |-> rank_restaurants(f.rows, limit)]

-----------------------------------------------------------------------------
(* The grounded parser (phase_3/llm_recommender.py).                       *)

\* str.find(c): the 0-based position of the first c, or -1.
RECURSIVE FindFrom(_, _, _)
FindFrom(text, c, i) ==
  IF i > Len(text) THEN -1
  ELSE IF text[i] = c THEN i - 1
  ELSE FindFrom(text, c, i + 1)

Find(text, c) == FindFrom(text, c, 1)

\* str.rfind(c): the 0-based position of the last c, or -1.
RECURSIVE RFindFrom(_, _, _)
RFindFrom(text, c, i) ==
  IF i = 0 THEN -1
  ELSE IF text[i] = c THEN i - 1
  ELSE RFindFrom(text, c, i - 1)

RFind(text, c) == RFindFrom(text, c, Len(text))

NoError == [cls |-> "", msg |-> "", arg |-> "", pos |-> 0]
Raise(cls, msg, arg, pos) == [cls |-> cls, msg |-> msg, arg |-> arg, pos |-> pos]

\* A variant that never raises: with no braces it yields the empty object.
_extract_json_block_silent(text) ==
  LET start == Find(text, "{")
      end == RFind(text, "}")
  IN
  IF start = -1 \/ end = -1 \/ end <= start
    THEN [error |-> NoError, block |-> <<"{", "}">>]
    ELSE [error |-> NoError, block |-> SubSeq(text, start + 1, end + 1)]

\* _extract_json_block: text[start : end + 1], or ValueError.
_extract_json_block(text) ==
  LET start == Find(text, "{")
      end == RFind(text, "}")
  IN
  IF start = -1 \/ end = -1 \/ end <= start
    THEN [error |-> Raise("ValueError", "No JSON object found in LLM response.", "", 0),
          block |-> <<>>]
    ELSE [error |-> NoError, block |-> SubSeq(text, start + 1, end + 1)]

\* What `for item in recs` iterates over: the elements of a list, the keys of
\* a dict, the characters of a str; any other value is not iterable.
IterItems(recs) ==
  CASE recs.k = "list" -> [error |-> NoError, items |-> recs.kids]
    [] recs.k = "dict" ->
         [error |-> NoError,
          items |-> [i \in 1..Len(recs.kids) |-> Atom("str", recs.kids[i].key)]]
    [] recs.k = "str" ->
         [error |-> NoError,
          items |-> [i \in 1..Len(StrContent(recs.a)) |-> Atom("str", "\"\"")]]
    [] OTHER ->
         [error |-> Raise("TypeError", "object is not iterable", recs.k, 0),
          items |-> <<>>]

LLMRestaurantRecommendation(restaurant, reason) ==
  [restaurant |-> restaurant, reason |-> reason]

\* candidates[idx] on a Python list: a negative idx counts from the end.
PyGetItem(list, idx) ==
  LET i == IF idx < 0 THEN Len(list) + idx + 1 ELSE idx + 1 IN
  IF i \in 1..Len(list) THEN [exc |-> "", v |-> <<list[i]>>]
  ELSE [exc |-> "IndexError", v |-> <<>>]

\* A variant with the upper range check only.
InRange_NoLower(idx, n) == idx < n

\* not (idx < 0 or idx >= len(candidates))
InRange(idx, n) == ~(idx < 0 \/ idx >= n)

\* A variant without the default: data.get("recommendations").
GetRecs_NoDefault(data) == DictGet(data, "\"recommendations\"", PyNone)

\* data.get("recommendations", [])
GetRecs(data) == DictGet(data, "\"recommendations\"", PyList(<<>>))

\* The loop of _parse_llm_response from item i on; acc is `results`.
RECURSIVE ParseItems(_, _, _, _)
ParseItems(items, i, cands, acc) ==
  IF i > Len(items) THEN [error |-> NoError, results |-> acc]
  ELSE
    LET item == items[i] IN
    IF item.k # "dict"
      THEN [error |-> Raise("AttributeError", "object has no attribute 'get'", item.k, 0),
            results |-> <<>>]
      ELSE
        LET c == PyInt(DictGet(item, "\"candidate_index\"", PyNone))
            idx == c.v
            reason == Strip(PyStr(DictGet(item, "\"reason\"", Atom("str", "\"\""))))
            got == PyGetItem(cands, idx)
        IN
        IF c.exc \in {"TypeError", "ValueError"} THEN ParseItems(items, i + 1, cands, acc)
        ELSE IF c.exc # ""
          THEN [error |-> Raise(c.exc, "cannot convert float infinity to integer", "", 0),
                results |-> <<>>]
        ELSE IF ~InRange(idx, Len(cands)) THEN ParseItems(items, i + 1, cands, acc)
        ELSE IF got.exc # ""
          THEN [error |-> Raise(got.exc, "list index out of range", "", 0),
                results |-> <<>>]
        ELSE ParseItems(items, i + 1, cands,
                        Append(acc, LLMRestaurantRecommendation(got.v[1], reason)))

\* _parse_llm_response: the recommendations, or the exception raised.
_parse_llm_response(text, cands) ==
  LET ext == _extract_json_block(text) IN
  IF ext.error.cls # "" THEN [error |-> ext.error, results |-> <<>>]
  ELSE
    LET data == JsonLoads(ext.block) IN
    IF ~data.ok
      THEN [error |-> Raise("JSONDecodeError", data.msg, "", data.pos), results |-> <<>>]
      ELSE
        LET it == IterItems(GetRecs(data.val)) IN
        IF it.error.cls # "" THEN [error |-> it.error, results |-> <<>>]
        ELSE ParseItems(it.items, 1, cands, <<>>)

-----------------------------------------------------------------------------
(* The prompt (phase_3/prompt_templates.py).  The candidate block is the   *)
(* sequence of its lines; a line is the record of its formatted fields.    *)

DigitChar(d) ==
  CASE d = 0 -> "0" [] d = 1 -> "1" [] d = 2 -> "2" [] d = 3 -> "3"
    [] d = 4 -> "4" [] d = 5 -> "5" [] d = 6 -> "6" [] d = 7 -> "7"
    [] d = 8 -> "8" [] OTHER -> "9"

\* The decimal digits of a natural number.
RECURSIVE DigitsOf(_)
DigitsOf(n) ==
  IF n < 10 THEN <<DigitChar(n)>> ELSE DigitsOf(n \div 10) \o <<DigitChar(n % 10)>>

\* f"{n}" for an int.
IntText(n) == IF n < 0 THEN <<"-">> \o DigitsOf(0 - n) ELSE DigitsOf(n)

\* f"{x:.1f}" for a float given in tenths.
Format1f(x) ==
  IF x.k = "nan" THEN <<"n", "a", "n">>
  ELSE LET a == IF x.t < 0 THEN 0 - x.t ELSE x.t IN
       (IF x.t < 0 THEN <<"-">> ELSE <<>>)
       \o DigitsOf(a \div 10) \o <<".", DigitChar(a % 10)>>

\* f"{x:.0f}" for a float given in tenths: rounded to the nearest integer, a
\* half to the even one.
Format0f(x) ==
  IF x.k = "nan" THEN <<"n", "a", "n">>
  ELSE LET a == IF x.t < 0 THEN 0 - x.t ELSE x.t
           q == a \div 10
           r == a % 10
           rounded == IF r > 5 \/ (r = 5 /\ q % 2 = 1) THEN q + 1 ELSE q
       IN (IF x.t < 0 THEN <<"-">> ELSE <<>>) \o DigitsOf(rounded)

\* A variant that numbers the lines from 1.
build_candidate_summary_FromOne(cands) ==
  [i \in 1..Len(cands) |->
     [idx |-> IntText(i), name |-> cands[i].name,
      locality |-> cands[i].location, rating |-> Format1f(cands[i].rating),
      price_for_two |-> Format0f(cands[i].price_for_two),
      votes |-> IntText(cands[i].votes), cuisines |-> cands[i].cuisines]]

\* build_candidate_summary: line idx (from 0, as enumerate counts) of the
\* block describes candidates[idx].
build_candidate_summary(cands) ==
  [i \in 1..Len(cands) |->
     [idx |-> IntText(i - 1), name |-> cands[i].name,
      locality |-> cands[i].location, rating |-> Format1f(cands[i].rating),
      price_for_two |-> Format0f(cands[i].price_for_two),
      votes |-> IntText(cands[i].votes), cuisines |-> cands[i].cuisines]]

build_system_prompt == "You are an AI restaurant recommender assistant."

\* build_user_message: the description of the preferences, the candidate
\* block and the instructions, which name the number of results asked for.
build_user_message(p, cands, n) ==
  [prefs_desc |-> p, candidate_block |-> build_candidate_summary(cands),
   instructions |-> IntText(n)]

build_messages(p, cands, n) ==
  << [role |-> "system", content |-> build_system_prompt],
     [role |-> "user", content |-> build_user_message(p, cands, n)] >>

\* No messages are built yet.
NoMessages == <<>>

\* recommend calls get_llm_recommendations(prefs, ..., max_results=5).
llm_max_results == 5

-----------------------------------------------------------------------------
(* Reply texts of the reasoning service.                                   *)

MaxEntries == 2
MaxCand == 2

\* One entry of the recommendations list, as a dict: idx and reason are the
\* tokens of the two values, <<>> for a key that is absent.
DictEntry(idx, reason) ==
  <<"{">>
  \o (IF idx = <<>> THEN <<>> ELSE <<"\"candidate_index\"", ":">> \o idx)
  \o (IF idx # <<>> /\ reason # <<>> THEN <<",">> ELSE <<>>)
  \o (IF reason = <<>> THEN <<>> ELSE <<"\"reason\"", ":">> \o reason)
  \o <<"}">>

\* The entries a reply is made of: every kind of candidate_index with a plain
\* reason, every kind of reason with a plain index, and entries that are no
\* dict.
EntryShapes == <<
  DictEntry(<<"0">>, <<"\"ok\"">>),
  DictEntry(<<"1">>, <<"\"ok\"">>),
  DictEntry(<<"2">>, <<"\"ok\"">>),
  DictEntry(<<"-1">>, <<"\"ok\"">>),
  DictEntry(<<"\"1\"">>, <<"\"ok\"">>),
  DictEntry(<<"\"abc\"">>, <<"\"ok\"">>),
  DictEntry(<<"null">>, <<"\"ok\"">>),
  DictEntry(<<>>, <<"\"ok\"">>),
  DictEntry(<<"1.5">>, <<"\"ok\"">>),
  DictEntry(<<"Infinity">>, <<"\"ok\"">>),
  DictEntry(<<"0">>, <<"\" ok \"">>),
  DictEntry(<<"0">>, <<>>),
  DictEntry(<<"0">>, <<"null">>),
  <<"7">> >>

\* The elements of a JSON array, comma-separated.
RECURSIVE JoinComma(_)
JoinComma(parts) ==
  IF parts = <<>> THEN <<>>
  ELSE IF Len(parts) = 1 THEN parts[1]
  ELSE parts[1] \o <<",">> \o JoinComma(Tail(parts))

\* {"recommendations": [entries]}
ReplyOf(entries) ==
  <<"{", "\"recommendations\"", ":", "[">> \o JoinComma(entries) \o <<"]", "}">>

\* Every sequence of at most n entry shapes.
RECURSIVE EntrySeqs(_)
EntrySeqs(n) ==
  IF n = 0 THEN {<<>>}
  ELSE LET shorter == EntrySeqs(n - 1) IN
       shorter \cup {Append(es, EntryShapes[k]) :
                       es \in {x \in shorter : Len(x) = n - 1},
                       k \in 1..Len(EntryShapes)}

\* Replies that are no object with a recommendations list.
OtherBodies == {
  <<"{", "}">>,
  <<"{", "\"other\"", ":", "1", "}">>,
  <<"{", "\"recommendations\"", ":", "null", "}">>,
  <<"{", "\"recommendations\"", ":", "7", "}">>,
  <<"{", "\"recommendations\"", ":", "\"\"", "}">>,
  <<"{", "\"recommendations\"", ":", "\"abc\"", "}">>,
  <<"{", "\"recommendations\"", ":", "{", "\"other\"", ":", "1", "}", "}">>,
  <<"{", "\"recommendations\"", ":", "[", "]", ",", "\"recommendations\"", ":", "[",
    "{", "\"candidate_index\"", ":", "0", "}", "]", "}">>,
  <<"{", "\"recommendations\"", ":", "[", "{", "\"candidate_index\"", ":", "0", "}", "}">>,
  <<"{", "\"recommendations\"", "[", "]", "}">>,
  <<"{", "\"recommendations\"", ":", "[", "{", "\"candidate_index\"", ":", "0", ",", "}",
    "]", "}">>,
  <<"{", "p", "}">>,
  <<"{">>,
  <<"}">>,
  <<"}", "{">>,
  <<"p">>,
  <<>> }

\* Prose the service may put before and after its answer.
Wrappers == {
  [pre |-> <<>>, post |-> <<>>],
  [pre |-> <<"p">>, post |-> <<>>],
  [pre |-> <<>>, post |-> <<"p">>],
  [pre |-> <<"p">>, post |-> <<"p">>],
  [pre |-> <<"p", "{", "p", "}">>, post |-> <<>>],
  [pre |-> <<>>, post |-> <<"p", "{", "p", "}">>],
  [pre |-> <<"{">>, post |-> <<>>],
  [pre |-> <<>>, post |-> <<"}">>] }

ReplyTexts ==
  {ReplyOf(es) : es \in EntrySeqs(MaxEntries)}
  \cup {w.pre \o ReplyOf(es) \o w.post : w \in Wrappers, es \in EntrySeqs(1)}
  \cup {w.pre \o b \o w.post : w \in Wrappers, b \in OtherBodies}

-----------------------------------------------------------------------------
(* The parser alone: _parse_llm_response applied to every reply text and   *)
(* every candidate list the ranker returns.                                *)

NoPrefs == UserPreferences(None, None, None, None, None)

\* No frame object exists and no concurrent caller runs.
NoHeap == <<>>
NoWorkers == <<>>

\* recommend calls get_llm_recommendations(prefs, max_candidates=15, ...).
max_candidates == 15

NoService == [kind |-> "none"]
NoHttp == [status |-> 0]

InitParse ==
  /\ pc = "RESPONDED"
  /\ prefs = NoPrefs
  /\ df = load_prepared_dataframe
  /\ filtered = <<>>
  /\ max_results \in 0..MaxCand
  /\ candidates = rank_restaurants(df, max_results)
  /\ messages = NoMessages
  /\ api_key = None
  /\ svc = NoService
  /\ raw_text \in ReplyTexts
  /\ results = <<>>
  /\ error = NoError
  /\ net_calls = 0
  /\ http = NoHttp
  /\ seen = {}
  /\ heap = NoHeap
  /\ workers = NoWorkers

\* Step 4 of get_llm_recommendations: parse the reply and map it back to
\* the candidates.
ParseLlmResponse ==
  /\ pc = "RESPONDED"
  /\ LET r == _parse_llm_response(raw_text, candidates) IN
     /\ results' = r.results
     /\ error' = r.error
     /\ pc' = IF r.error.cls = "" THEN "PARSED" ELSE "PARSE_ERROR"
  /\ UNCHANGED <<prefs, df, max_results, messages, filtered, candidates, api_key, svc, raw_text,
                 net_calls, http, seen, heap, workers>>

NextParse == ParseLlmResponse

SpecParse == InitParse /\ [][NextParse]_vars

-----------------------------------------------------------------------------
(* Properties of the parser.                                               *)

Terminal == pc \in {"PARSED", "PARSE_ERROR"}

\* The entries of the reply, when its block is an object whose
\* recommendations field is a list.
ReplyData == JsonLoads(_extract_json_block(raw_text).block)
HasObject == _extract_json_block(raw_text).error.cls = "" /\ ReplyData.ok
HasKey(d, key) == \E i \in 1..Len(d.kids) : d.kids[i].key = key
HasRecsList ==
  /\ HasObject
  /\ HasKey(ReplyData.val, "\"recommendations\"")
  /\ GetRecs(ReplyData.val).k = "list"
ReplyEntries == GetRecs(ReplyData.val).kids

\* The candidate_index of an entry as the reply states it.
HasIndex(e) == e.k = "dict" /\ HasKey(e, "\"candidate_index\"")
IndexOf(e) == DictGet(e, "\"candidate_index\"", PyNone)
\* The entry states an integer: a JSON integer, or a string holding one.
StatesInteger(e) ==
  /\ HasIndex(e)
  /\ \/ IndexOf(e).k = "int"
     \/ IndexOf(e).k = "str" /\ IntOfChars(StrContent(IndexOf(e).a)).exc = ""
IntegerOf(e) ==
  IF IndexOf(e).k = "int" THEN IntVal(IndexOf(e).a)
  ELSE IntOfChars(StrContent(IndexOf(e).a)).v
OutOfRange(e) ==
  StatesInteger(e) /\ (IntegerOf(e) < 0 \/ IntegerOf(e) >= Len(candidates))
ValidInRange(e) == StatesInteger(e) /\ ~OutOfRange(e)

\* C1: every returned recommendation holds candidates[idx] for some
\* 0 <= idx < len(candidates), and the entries whose index is a negative
\* integer or one >= len(candidates) produce no recommendation: there are at
\* most as many recommendations as there are other entries.
C1_Grounding ==
  pc = "PARSED" =>
    /\ \A k \in 1..Len(results) :
         \E idx \in 0..(Len(candidates) - 1) :
           results[k].restaurant = candidates[idx + 1]
    /\ HasRecsList =>
         Len(results) <= Cardinality({i \in 1..Len(ReplyEntries) :
                                        ~OutOfRange(ReplyEntries[i])})

C1_Witness ==
  /\ pc = "PARSED"
  /\ Len(candidates) >= 2
  /\ Len(results) = 1
  /\ HasRecsList
  /\ Len(ReplyEntries) = 2
  /\ \E i \in 1..2 : OutOfRange(ReplyEntries[i]) /\ IntegerOf(ReplyEntries[i]) < 0

\* The text holds no open-brace that a close-brace follows.
NoBlock(text) ==
  ~\E i \in 1..Len(text), j \in 1..Len(text) :
     i < j /\ text[i] = "{" /\ text[j] = "}"

\* C2: a reply with no extractable block ends in a parse error (ValueError)
\* and returns no list.
C2_NoBlockIsParseError ==
  (Terminal /\ NoBlock(raw_text)) =>
    /\ pc = "PARSE_ERROR"
    /\ error.cls = "ValueError"
    /\ results = <<>>

C2_Witness ==
  /\ pc = "PARSE_ERROR"
  /\ raw_text = <<"p">>
  /\ error.cls = "ValueError"

\* The reply holds a well-formed object without a recommendations field.
ObjectWithoutRecs == HasObject /\ ~HasKey(ReplyData.val, "\"recommendations\"")

\* C3 as stated: a well-formed object without the recommendations field ends
\* in a parse error.
C3_MissingFieldIsParseError ==
  (Terminal /\ ObjectWithoutRecs) => pc = "PARSE_ERROR"

\* C3 as amended: a well-formed object without the recommendations field is
\* read as an empty recommendations list: the request ends in PARSED with no
\* recommendation.
C3_MissingFieldIsEmpty ==
  (Terminal /\ ObjectWithoutRecs) =>
    /\ pc = "PARSED"
    /\ results = <<>>
    /\ error = NoError

C3_Witness ==
  /\ pc = "PARSED"
  /\ ObjectWithoutRecs
  /\ raw_text = <<"p", "{", "\"other\"", ":", "1", "}">>

\* C4: a reply whose recommendations field is a list ends in PARSED whatever
\* its entries are, and the entries with a bad index (absent, null, no
\* integer, no dict) are dropped: no more recommendations than there are
\* entries stating an integer index.
C4_EntryDefectsNotFatal ==
  (Terminal /\ HasRecsList) =>
    /\ pc = "PARSED"
    /\ Len(results) <= Cardinality({i \in 1..Len(ReplyEntries) :
                                      StatesInteger(ReplyEntries[i])})

\* The recommendations the entries with a valid in-range index call for, in
\* the order of the reply.
RECURSIVE ExpectedIds(_)
ExpectedIds(entries) ==
  IF entries = <<>> THEN <<>>
  ELSE IF ValidInRange(entries[1])
    THEN <<candidates[IntegerOf(entries[1]) + 1].id>> \o ExpectedIds(Tail(entries))
    ELSE ExpectedIds(Tail(entries))

\* C5: the parser returns one pair per entry with a valid in-range index, in
\* reply order: the k-th pair holds the candidate of the k-th such entry.
C5_OnePairPerValidEntry ==
  (Terminal /\ HasRecsList) =>
    [k \in 1..Len(results) |-> results[k].restaurant.id] = ExpectedIds(ReplyEntries)

-----------------------------------------------------------------------------
(* The filter alone: filter_restaurants applied to the prepared frame for  *)
(* every combination of preferences.  Prices and ratings are in tenths.    *)

MinPrices == {None, Some(3000), Some(5000)}
MaxPrices == {None, Some(3000), Some(20000)}
MinRatings == {None, Some(0), Some(40)}
Localities == {
  None, Some(<<>>), Some(<<" ">>),
  Some(<<"b", "t", "m">>), Some(<<" ", "B", "T", "M", " ">>), Some(<<"t">>),
  Some(<<"b", ".", "m">>), Some(<<".">>), Some(<<"(">>), Some(<<"(", "h", ")">>),
  Some(<<"n", "a">>), Some(<<"x">>) }
DesiredCuisines == {
  None, Some(<<>>), Some(<< <<" ">> >>), Some(<< <<>>, <<" ", " ">> >>),
  Some(<< <<"n", "i">> >>), Some(<< <<" ", "C", "H", " ">>, <<>> >>),
  Some(<< <<"x">>, <<"n", "i">> >>), Some(<< <<"n", ".">> >>),
  Some(<< <<"n", "i">>, <<")">> >>) }

InitFilter ==
  /\ pc = "START"
  /\ prefs \in {UserPreferences(a, b, c, d, e) :
                  a \in MinPrices, b \in MaxPrices, c \in Localities,
                  d \in MinRatings, e \in DesiredCuisines}
  /\ df = load_prepared_dataframe
  /\ max_results = max_candidates
  /\ filtered = <<>>
  /\ candidates = <<>>
  /\ messages = NoMessages
  /\ api_key = None
  /\ svc = NoService
  /\ raw_text = <<>>
  /\ results = <<>>
  /\ error = NoError
  /\ net_calls = 0
  /\ http = NoHttp
  /\ seen = {}
  /\ heap = NoHeap
  /\ workers = NoWorkers

\* filter_restaurants(df, prefs)
FilterRestaurants ==
  /\ pc = "START"
  /\ LET f == filter_restaurants(df, prefs) IN
     /\ filtered' = f.rows
     /\ error' = IF f.exc = "" THEN NoError
                 ELSE Raise(f.exc, f.msg, "", f.pos)
     /\ pc' = IF f.exc = "" THEN "FILTERED" ELSE "FAILED"
  /\ UNCHANGED <<prefs, df, max_results, messages, candidates, api_key, svc, raw_text, results,
                 net_calls, http, seen, heap, workers>>

NextFilter == FilterRestaurants

SpecFilter == InitFilter /\ [][NextFilter]_vars

\* sub occurs in text as a substring.
Contains(text, sub) ==
  \E o \in 0..Len(text) :
    /\ o + Len(sub) <= Len(text)
    /\ \A i \in 1..Len(sub) : text[o + i] = sub[i]

\* The trimmed, lower-cased, non-blank desired terms.
ActiveTerms(p) ==
  IF p.desired_cuisines.some
    THEN {Lower(Strip(p.desired_cuisines.v[k])) : k \in 1..Len(p.desired_cuisines.v)}
         \ {<<>>}
    ELSE {}

\* The row satisfies every active constraint of the preferences.
Satisfies(r, p) ==
  /\ p.min_price.some => FloatGe(r.price_for_two_numeric, Num(p.min_price.v))
  /\ p.max_price.some => FloatLe(r.price_for_two_numeric, Num(p.max_price.v))
  /\ (p.locality.some /\ p.locality.v # <<>>) =>
       Contains(r.location_normalized, Lower(Strip(p.locality.v)))
  /\ p.min_rating.some => FloatGe(r.rating_numeric, Num(p.min_rating.v))
  /\ ActiveTerms(p) # {} =>
       \E t \in ActiveTerms(p) : Contains(r.cuisines_normalized, t)

\* C10: the filter returns exactly the rows that satisfy every active
\* constraint (locality and cuisine terms as substrings), in input order.
C10_FilterIsConjunction ==
  pc \in {"FILTERED", "FAILED"} =>
    /\ pc = "FILTERED"
    /\ LET Keep(r) == Satisfies(r, prefs) IN filtered = SelectSeq(df, Keep)

-----------------------------------------------------------------------------
(* The Groq client (phase_3/client.py).  A response of the service is a    *)
(* status and a body; the body is JSON (data is the value response.json()  *)
(* returns) or it is not (toks is its text).  The content of a well-formed *)
(* envelope is a str whose characters are the reply text.                  *)

GroqClientError(msg, arg, pos) == Raise("GroqClientError", msg, arg, pos)

\* A variant that tests `api_key is None` only: an empty key passes.
load_groq_config_NoneOnly(key) ==
  IF ~key.some
    THEN GroqClientError("GROQ_API_KEY environment variable is not set. Set it before running Phase 3.", "", 0)
    ELSE NoError

\* load_groq_config: `if not api_key` holds for an unset and for an empty key.
load_groq_config(key) ==
  IF ~Truthy(key)
    THEN GroqClientError("GROQ_API_KEY environment variable is not set. Set it before running Phase 3.", "", 0)
    ELSE NoError

JsonBody(data) == [json |-> TRUE, toks |-> <<>>, data |-> data]
TextBody(toks) == [json |-> FALSE, toks |-> toks, data |-> PyNone]
HttpResponse(status, body) == [kind |-> "http", status |-> status, body |-> body]

StrOfText(text) == [k |-> "str", a |-> "", kids |-> text]
Pair(key, val) == [key |-> key, val |-> val]

\* {"choices": [{"message": {"content": text}}]}
Envelope(text) ==
  PyDict(<<Pair("\"choices\"",
     PyList(<<PyDict(<<Pair("\"message\"",
        PyDict(<<Pair("\"content\"", StrOfText(text))>>))>>)>>))>>)

SubOk(v) == [error |-> NoError, v |-> v]
SubExc(cls, msg, arg) == [error |-> Raise(cls, msg, arg, 0), v |-> PyNone]

\* x[key] for a str key.
GetKey(x, key) ==
  CASE x.k = "dict" ->
         IF \E i \in 1..Len(x.kids) : x.kids[i].key = key
           THEN SubOk(DictGet(x, key, PyNone))
           ELSE SubExc("KeyError", key, "")
    [] x.k = "list" -> SubExc("TypeError", "list indices must be integers or slices, not str", "")
    [] x.k = "str" -> SubExc("TypeError", "string indices must be integers, not 'str'", "")
    [] OTHER -> SubExc("TypeError", "object is not subscriptable", x.k)

\* x[0]
GetFirst(x) ==
  CASE x.k = "list" ->
         IF x.kids # <<>> THEN SubOk(x.kids[1])
         ELSE SubExc("IndexError", "list index out of range", "")
    [] x.k = "dict" -> SubExc("KeyError", "0", "")
    [] x.k = "str" -> SubExc("IndexError", "string index out of range", "")
    [] OTHER -> SubExc("TypeError", "object is not subscriptable", x.k)

\* data["choices"][0]["message"]["content"]
Content(data) ==
  LET a == GetKey(data, "\"choices\"") IN
  IF a.error.cls # "" THEN a
  ELSE LET b == GetFirst(a.v) IN
  IF b.error.cls # "" THEN b
  ELSE LET c == GetKey(b.v, "\"message\"") IN
  IF c.error.cls # "" THEN c
  ELSE GetKey(c.v, "\"content\"")

ChatOk(text) == [error |-> NoError, text |-> text]
ChatExc(err) == [error |-> err, text |-> <<>>]

\* A variant without the status check of client.py:76-79.
chat_AnyStatus(response) ==
  LET parsed == JsonLoads(response.body.toks) IN
  IF ~response.body.json
    THEN ChatExc(Raise("requests.JSONDecodeError", parsed.msg, "", parsed.pos))
  ELSE
    LET c == Content(response.body.data) IN
    IF c.error.cls \in {"KeyError", "IndexError"}
      THEN ChatExc(GroqClientError("Unexpected Groq response shape", c.error.msg, 0))
    ELSE IF c.error.cls # "" THEN ChatExc(c.error)
    ELSE ChatOk(c.v.kids)

\* GroqClient.chat from the response of requests.post on.
chat(response) ==
  IF response.status # 200
    THEN ChatExc(GroqClientError("Groq API error", "", response.status))
  ELSE
    LET parsed == JsonLoads(response.body.toks) IN
    IF ~response.body.json
      THEN ChatExc(Raise("requests.JSONDecodeError", parsed.msg, "", parsed.pos))
    ELSE
      LET c == Content(response.body.data) IN
      IF c.error.cls \in {"KeyError", "IndexError"}
        THEN ChatExc(GroqClientError("Unexpected Groq response shape", c.error.msg, 0))
      ELSE IF c.error.cls # "" THEN ChatExc(c.error)
      ELSE ChatOk(c.v.kids)

-----------------------------------------------------------------------------
(* The endpoint (phase_4/app.py).                                          *)

HTTPException(status, prefix, err) ==
  [status |-> status, prefix |-> prefix, msg |-> err.msg, arg |-> err.arg,
   pos |-> err.pos]

\* The response of recommend for what get_llm_recommendations returned or
\* raised.
recommend(err) ==
  IF err.cls = "" THEN [status |-> 200, prefix |-> "", msg |-> "", arg |-> "", pos |-> 0]
  ELSE IF err.cls = "GroqClientError" THEN HTTPException(502, "Groq API Error", err)
  ELSE HTTPException(500, "Unexpected Error", err)

-----------------------------------------------------------------------------
(* The requests of one server process.                                     *)

MaxRequests == 2

ApiKeys == {None, Some(<<>>), Some(<<"k">>)}

RequestPrefs == {
  NoPrefs,
  UserPreferences(Some(3000), Some(5000), Some(<<"B", "T", "M">>), Some(40),
                  Some(<< <<"n", "i">> >>)),
  UserPreferences(None, None, Some(<<"x">>), None, None),
  UserPreferences(None, None, Some(<<"h", ".", "r">>), None, None),
  UserPreferences(None, None, Some(<<"(">>), None, None),
  UserPreferences(None, None, None, Some(50), None) }

PipelineReplies == {
  ReplyOf(<<DictEntry(<<"0">>, <<"\"ok\"">>)>>),
  ReplyOf(<<DictEntry(<<"1">>, <<"\" ok \"">>), DictEntry(<<"7">>, <<>>)>>),
  ReplyOf(<<>>),
  ReplyOf(<< <<"7">> >>),
  <<"{", "}">>,
  <<"{", "p", "}">>,
  <<"p">> }

ServiceResponses ==
  {HttpResponse(200, JsonBody(Envelope(t))) : t \in PipelineReplies}
  \cup {HttpResponse(st, TextBody(<<"p">>)) : st \in {401, 500}}
  \cup {HttpResponse(500, JsonBody(Envelope(ReplyOf(<<>>))))}
  \cup {HttpResponse(200, b) : b \in {
          TextBody(<<"p">>),
          TextBody(<<"{", "p", "}">>),
          JsonBody(PyDict(<<>>)),
          JsonBody(PyDict(<<Pair("\"choices\"", PyList(<<>>))>>)),
          JsonBody(PyDict(<<Pair("\"choices\"", PyNone)>>)),
          JsonBody(PyDict(<<Pair("\"choices\"", PyList(<<PyDict(<<>>)>>))>>)) }}

Init ==
  /\ pc = "START"
  /\ prefs \in RequestPrefs
  /\ df = load_prepared_dataframe
  /\ max_results = max_candidates
  /\ filtered = <<>>
  /\ candidates = <<>>
  /\ messages = NoMessages
  /\ api_key \in ApiKeys
  /\ svc = NoService
  /\ raw_text = <<>>
  /\ results = <<>>
  /\ error = NoError
  /\ net_calls = 0
  /\ http = NoHttp
  /\ seen = {}
  /\ heap = NoHeap
  /\ workers = NoWorkers

\* Step 1 of get_llm_recommendations: the candidates of the deterministic
\* engine; an empty list ends the request.
GetCandidates ==
  /\ pc = "START"
  /\ LET f == filter_restaurants(df, prefs)
         r == get_recommendations(df, prefs, max_results)
     IN
     /\ filtered' = f.rows
     /\ candidates' = r.candidates
     /\ error' = IF r.exc = "" THEN NoError
                 ELSE Raise(r.exc, r.msg, "", r.pos)
     /\ pc' = IF r.exc # "" THEN "FILTER_ERROR"
              ELSE IF r.candidates = <<>> THEN "RETURNED_EMPTY"
              ELSE "CANDIDATES"
  /\ UNCHANGED <<prefs, df, max_results, messages, api_key, svc, raw_text, results, net_calls, http, seen, heap, workers>>

\* Step 2: build_messages.
BuildMessages ==
  /\ pc = "CANDIDATES"
  /\ messages' = build_messages(prefs, candidates, llm_max_results)
  /\ pc' = "BUILT"
  /\ UNCHANGED <<prefs, df, max_results, filtered, candidates, api_key, svc,
                 raw_text, results, error, net_calls, http, seen, heap, workers>>

\* Step 3, GroqClient(): the configuration is loaded from the environment.
CreateClient ==
  /\ pc = "BUILT"
  /\ error' = load_groq_config(api_key)
  /\ pc' = IF load_groq_config(api_key).cls = "" THEN "CLIENT" ELSE "CONFIG_ERROR"
  /\ UNCHANGED <<prefs, df, max_results, messages, filtered, candidates, api_key, svc, raw_text,
                 results, net_calls, http, seen, heap, workers>>

\* client.chat: requests.post sends the request and blocks.
Send ==
  /\ pc = "CLIENT"
  /\ net_calls' = net_calls + 1
  /\ pc' = "AWAITING_RESPONSE"
  /\ UNCHANGED <<prefs, df, max_results, messages, filtered, candidates, api_key, svc, raw_text,
                 results, error, http, seen, heap, workers>>

\* requests.post raises after timeout=60 without a response.
RequestTimesOut ==
  /\ pc = "AWAITING_RESPONSE"
  /\ svc' = [kind |-> "timeout"]
  /\ error' = Raise("requests.ReadTimeout", "Read timed out.", "", 60)
  /\ pc' = "SERVICE_ERROR"
  /\ UNCHANGED <<prefs, df, max_results, messages, filtered, candidates, api_key, raw_text, results,
                 net_calls, http, seen, heap, workers>>

\* requests.post raises because the service cannot be reached.
ConnectionFails ==
  /\ pc = "AWAITING_RESPONSE"
  /\ svc' = [kind |-> "unreachable"]
  /\ error' = Raise("requests.ConnectionError", "Max retries exceeded", "", 0)
  /\ pc' = "SERVICE_ERROR"
  /\ UNCHANGED <<prefs, df, max_results, messages, filtered, candidates, api_key, raw_text, results,
                 net_calls, http, seen, heap, workers>>

\* requests.post returns a response; chat reads the text out of it.
ResponseArrives ==
  /\ pc = "AWAITING_RESPONSE"
  /\ \E response \in ServiceResponses :
       /\ svc' = response
       /\ error' = chat(response).error
       /\ raw_text' = chat(response).text
       /\ pc' = IF chat(response).error.cls = "" THEN "RESPONDED" ELSE "SERVICE_ERROR"
  /\ UNCHANGED <<prefs, df, max_results, messages, filtered, candidates, api_key, results, net_calls,
                 http, seen, heap, workers>>

Ended ==
  pc \in {"FILTER_ERROR", "RETURNED_EMPTY", "CONFIG_ERROR", "SERVICE_ERROR",
          "PARSE_ERROR", "PARSED"}

\* recommend turns what get_llm_recommendations returned or raised into the
\* HTTP response.
Respond ==
  /\ Ended
  /\ http = NoHttp
  /\ http' = recommend(error)
  /\ UNCHANGED <<pc, prefs, df, max_results, messages, filtered, candidates, api_key, svc, raw_text,
                 results, error, net_calls, seen, heap, workers>>

\* What went wrong in the request, as the service stands behind it.
Cause ==
  CASE pc = "SERVICE_ERROR" /\ svc.kind \in {"timeout", "unreachable"} -> "transport"
    [] pc = "SERVICE_ERROR" /\ svc.kind = "http" /\ svc.status # 200 -> "status"
    [] pc = "SERVICE_ERROR" -> "envelope"
    [] pc = "PARSE_ERROR" -> "content"
    [] pc = "CONFIG_ERROR" -> "config"
    [] pc = "FILTER_ERROR" -> "filter"
    [] OTHER -> "none"

\* The next request of the same process: the caller keeps what it saw.
NextRequest ==
  /\ http # NoHttp
  /\ Cardinality(seen) < MaxRequests - 1
  /\ seen' = seen \cup {[cause |-> Cause, http |-> http]}
  /\ pc' = "START"
  /\ prefs' \in RequestPrefs
  /\ filtered' = <<>>
  /\ candidates' = <<>>
  /\ svc' = NoService
  /\ raw_text' = <<>>
  /\ results' = <<>>
  /\ error' = NoError
  /\ net_calls' = 0
  /\ http' = NoHttp
  /\ messages' = NoMessages
  /\ UNCHANGED <<df, max_results, api_key, heap, workers>>

Next ==
  \/ GetCandidates
  \/ BuildMessages
  \/ CreateClient
  \/ Send
  \/ RequestTimesOut
  \/ ConnectionFails
  \/ ResponseArrives
  \/ ParseLlmResponse
  \/ Respond
  \/ NextRequest

Spec == Init /\ [][Next]_vars

-----------------------------------------------------------------------------
(* Properties of a request.                                                *)

\* No row of the dataset satisfies the preferences.
NothingMatches == \A i \in 1..Len(df) : ~Satisfies(df[i], prefs)

\* C6: when no record of the dataset matches the preferences the request
\* returns an empty list and no error, whatever the credential and the
\* service.
C6_NoMatchReturnsEmpty ==
  (Ended /\ NothingMatches) =>
    /\ pc = "RETURNED_EMPTY"
    /\ results = <<>>
    /\ error = NoError

\* C7: a request whose call to the service timed out ends in the error class
\* of a non-success status: GroqClientError, which recommend reports as 502.
C7_TimeoutIsServiceError ==
  (Ended /\ svc.kind = "timeout") =>
    /\ pc = "SERVICE_ERROR"
    /\ error.cls = "GroqClientError"
    /\ http # NoHttp => http.status = 502

\* The three failures of a reasoning-layer call the caller has to tell apart.
FailureKind(cause) ==
  CASE cause \in {"transport", "status"} -> "service"
    [] cause = "envelope" -> "envelope"
    [] cause = "content" -> "content"
    [] OTHER -> "none"

\* C8: two requests that failed for different reasons (transport or status,
\* envelope shape, unusable content) never show the caller the same error
\* response.
C8_FailuresDistinguishable ==
  \A a \in seen :
    (/\ http # NoHttp
     /\ FailureKind(a.cause) # "none"
     /\ FailureKind(Cause) # "none"
     /\ a.http = http)
    => FailureKind(a.cause) = FailureKind(Cause)

\* C9: while the credential is missing (unset or empty) no request is sent to
\* the service and the client is never used, and a request that has
\* candidates ends in the configuration error.
C9_MissingKeyFailsBeforeIO ==
  ~Truthy(api_key) =>
    /\ net_calls = 0
    /\ pc \notin {"CLIENT", "AWAITING_RESPONSE", "RESPONDED", "SERVICE_ERROR",
                  "PARSE_ERROR", "PARSED"}
    /\ (Ended /\ candidates # <<>>) =>
         /\ pc = "CONFIG_ERROR"
         /\ error = GroqClientError("GROQ_API_KEY environment variable is not set. Set it before running Phase 3.", "", 0)

C9_Witness ==
  /\ api_key = Some(<<>>)
  /\ pc = "CONFIG_ERROR"
  /\ Len(candidates) >= 1
  /\ net_calls = 0
  /\ http # NoHttp
  /\ http.status = 502

-----------------------------------------------------------------------------
(* Properties of the filter and of the ranking.                            *)

\* C11: with an active locality constraint no row whose location is missing
\* in the dataset is part of the filter result.
C11_MissingLocalityNeverMatches ==
  (pc = "FILTERED" /\ Truthy(prefs.locality)) =>
    \A i \in 1..Len(filtered) : filtered[i].location.ty # "nan"

\* Every sequence of distinct elements of S: the orderings of its subsets.
RECURSIVE Orderings(_)
Orderings(S) ==
  {<<>>} \cup UNION {{<<r>> \o q : q \in Orderings(S \ {r})} : r \in S}

\* The ranking alone: rank_restaurants applied to every frame made of rows of
\* the prepared dataset, in every row order, for every bound.
InitRank ==
  /\ pc = "FILTERED"
  /\ prefs = NoPrefs
  /\ df \in Orderings({load_prepared_dataframe[i] :
                         i \in 1..Len(load_prepared_dataframe)})
  /\ max_results \in 0..MaxCand
  /\ filtered = df
  /\ candidates = <<>>
  /\ messages = NoMessages
  /\ api_key = None
  /\ svc = NoService
  /\ raw_text = <<>>
  /\ results = <<>>
  /\ error = NoError
  /\ net_calls = 0
  /\ http = NoHttp
  /\ seen = {}
  /\ heap = NoHeap
  /\ workers = NoWorkers

\* rank_restaurants(filtered, max_results=max_results)
RankRestaurants ==
  /\ pc = "FILTERED"
  /\ candidates' = rank_restaurants(filtered, max_results)
  /\ pc' = "RANKED"
  /\ UNCHANGED <<prefs, df, max_results, messages, filtered, api_key, svc, raw_text,
                 results, error, net_calls, http, seen, heap, workers>>

NextRank == RankRestaurants

SpecRank == InitRank /\ [][NextRank]_vars

\* The composite key of a candidate, on the fields of the Restaurant; the
\* comparisons are those of numbers, false when a price is not a number.
ScoreOf(c) == 200 * c.rating.t + Log1p(Max(c.votes, 0))

\* c ranks strictly above d by score, rating and votes descending, price
\* ascending.
RanksAbove(c, d) ==
  \/ ScoreOf(c) > ScoreOf(d)
  \/ ScoreOf(c) = ScoreOf(d) /\ c.rating.t > d.rating.t
  \/ ScoreOf(c) = ScoreOf(d) /\ c.rating.t = d.rating.t /\ c.votes > d.votes
  \/ /\ ScoreOf(c) = ScoreOf(d) /\ c.rating.t = d.rating.t /\ c.votes = d.votes
     /\ c.price_for_two.k = "num" /\ d.price_for_two.k = "num"
     /\ c.price_for_two.t < d.price_for_two.t

CandidateIds == {candidates[i].id : i \in 1..Len(candidates)}

\* C12: rank_restaurants returns min(N, len) distinct records of its input,
\* in the order of the composite key, and no record left out ranks above a
\* returned one; an empty input gives an empty list.
C12_RankIsSortedPrefix ==
  pc = "RANKED" =>
    /\ Len(candidates) = Min(max_results, Len(filtered))
    /\ Cardinality(CandidateIds) = Len(candidates)
    /\ \A i \in 1..Len(candidates) :
         \E k \in 1..Len(filtered) : candidates[i] = Restaurant(filtered[k])
    /\ \A i, j \in 1..Len(candidates) :
         i < j => ~RanksAbove(candidates[j], candidates[i])
    /\ \A k \in 1..Len(filtered) :
         filtered[k].id \notin CandidateIds =>
           \A i \in 1..Len(candidates) :
             ~RanksAbove(Restaurant(filtered[k]), candidates[i])
    /\ filtered = <<>> => candidates = <<>>

\* A ranking that truncates and in which the price decides between two
\* candidates equal on score, rating and votes.
C12_Witness ==
  /\ pc = "RANKED"
  /\ max_results >= 2
  /\ Len(filtered) > max_results
  /\ Len(candidates) = max_results
  /\ \E i \in 1..(Len(candidates) - 1) :
       /\ ScoreOf(candidates[i]) = ScoreOf(candidates[i + 1])
       /\ candidates[i].price_for_two.k = "num"
       /\ candidates[i + 1].price_for_two.k = "num"
       /\ candidates[i].price_for_two.t < candidates[i + 1].price_for_two.t

\* What a caller sees of a candidate list: the fields of each Restaurant.
Shown(cands) ==
  [i \in 1..Len(cands) |->
     [name |-> cands[i].name, location |-> cands[i].location,
      price_for_two |-> cands[i].price_for_two, rating |-> cands[i].rating,
      cuisines |-> cands[i].cuisines, votes |-> cands[i].votes]]

\* C13: the ranking does not depend on the row order of its input: every
\* other ordering of the same rows gives the same sequence of candidates.
C13_RankIgnoresRowOrder ==
  pc = "RANKED" =>
    \A q \in Orderings({filtered[k] : k \in 1..Len(filtered)}) :
      Len(q) = Len(filtered) =>
        Shown(rank_restaurants(q, max_results)) = Shown(candidates)

-----------------------------------------------------------------------------
(* Normalization alone: load_prepared_dataframe applied to a frame of one  *)
(* raw row, for every combination of raw rate, cost and votes values.      *)

RawRates == {
  NaNCell,
  StrCell(<<"4", ".", "1", "/", "5">>),
  StrCell(<<" ", "3", ".", "9", " ", "/", "5">>),
  StrCell(<<"4">>),
  StrCell(<<"N", "E", "W">>),
  StrCell(<<"n", "e", "w">>),
  StrCell(<<"-">>),
  StrCell(<<>>),
  StrCell(<<" ">>),
  StrCell(<<"a", "b", "c">>),
  StrCell(<<"N", "a", "n">>),
  StrCell(<<"7", ".", "5", "/", "5">>),
  StrCell(<<"-", "1", ".", "0", "/", "5">>) }

RawCosts == {
  NaNCell,
  IntCell(300),
  IntCell(-5),
  StrCell(<<"3", "0", "0">>),
  StrCell(<<"1", ",", "2", "0", "0">>),
  StrCell(<<>>),
  StrCell(<<"a", "b", "c">>),
  StrCell(<<"N", "A", "N">>),
  StrCell(<<"-", "5">>) }

RawVotes == {
  NaNCell,
  IntCell(100),
  IntCell(0),
  IntCell(-5),
  StrCell(<<"1", ",", "2", "0", "0">>),
  StrCell(<<"-", "5">>),
  StrCell(<<"1", ".", "5">>),
  StrCell(<<"a", "b", "c">>),
  StrCell(<<>>) }

\* pd.read_csv has returned the raw frame; the helper columns are not there
\* yet.
InitNormalize ==
  /\ pc = "LOADING"
  /\ prefs = NoPrefs
  /\ df \in {<<[name |-> <<"A">>, rate |-> a, votes |-> v,
               location |-> StrCell(<<"B", "T", "M">>),
               cuisines |-> StrCell(<<"n", "i">>), cost |-> c]>> :
               a \in RawRates, c \in RawCosts, v \in RawVotes}
  /\ max_results = max_candidates
  /\ filtered = <<>>
  /\ candidates = <<>>
  /\ messages = NoMessages
  /\ api_key = None
  /\ svc = NoService
  /\ raw_text = <<>>
  /\ results = <<>>
  /\ error = NoError
  /\ net_calls = 0
  /\ http = NoHttp
  /\ seen = {}
  /\ heap = NoHeap
  /\ workers = NoWorkers

\* load_prepared_dataframe after read_csv: the helper columns are added.
LoadPreparedDataframe ==
  /\ pc = "LOADING"
  /\ df' = [i \in 1..Len(df) |->
              PrepareRow(df[i], i) @@ [rate |-> df[i].rate, votes |-> df[i].votes,
                                       cost |-> df[i].cost]]
  /\ pc' = "LOADED"
  /\ UNCHANGED <<prefs, max_results, messages, filtered, candidates, api_key, svc,
                 raw_text, results, error, net_calls, http, seen, heap, workers>>

NextNormalize == LoadPreparedDataframe

SpecNormalize == InitNormalize /\ [][NextNormalize]_vars

\* The text is a decimal number: an optional sign, digits, and optionally a
\* point followed by digits.
IsNumberText(chars) ==
  LET body == IF chars # <<>> /\ chars[1] \in {"+", "-"} THEN Tail(chars) ELSE chars
      whole == SplitHead(body, ".")
      frac == IF Len(whole) < Len(body)
                THEN SubSeq(body, Len(whole) + 2, Len(body)) ELSE <<>>
  IN
  /\ whole # <<>>
  /\ \A i \in 1..Len(whole) : whole[i] \in DigitChars
  /\ \A i \in 1..Len(frac) : frac[i] \in DigitChars
  /\ Len(whole) < Len(body) => frac # <<>>

\* The text is a whole number.
IsIntText(chars) == IsNumberText(chars) /\ \A i \in 1..Len(chars) : chars[i] # "."

\* The raw value states a number: the part of a rating before "/", a cost or
\* a vote count once the commas are removed.
RatingParsable(cell) ==
  cell.ty = "str" /\ IsNumberText(Strip(SplitHead(Strip(cell.s), "/")))
PriceParsable(cell) ==
  \/ cell.ty = "int"
  \/ cell.ty = "str" /\ IsNumberText(Strip(RemoveChar(cell.s, ",")))
VotesParsable(cell) ==
  \/ cell.ty = "int"
  \/ cell.ty = "str" /\ IsIntText(Strip(RemoveChar(cell.s, ",")))

\* C14: every raw value that states no number (missing, empty, "-", "NEW",
\* other text) is normalized to the default 0.0 / 0.0 / 0, and a
\* comma-formatted number to its value.
C14_NormalizationDefaults ==
  pc = "LOADED" =>
    \A i \in 1..Len(df) :
      /\ ~RatingParsable(df[i].rate) => df[i].rating_numeric = Num(0)
      /\ ~PriceParsable(df[i].cost) => df[i].price_for_two_numeric = Num(0)
      /\ ~VotesParsable(df[i].votes) => df[i].votes_numeric = 0
      /\ df[i].cost = StrCell(<<"1", ",", "2", "0", "0">>) =>
           df[i].price_for_two_numeric = Num(12000)
      /\ df[i].votes = StrCell(<<"1", ",", "2", "0", "0">>) =>
           df[i].votes_numeric = 1200

\* C15: every normalized record has a rating in [0, 5], a price >= 0 and
\* votes >= 0.
C15_NormalizedRanges ==
  pc = "LOADED" =>
    \A i \in 1..Len(df) :
      /\ df[i].rating_numeric.k = "num"
      /\ df[i].rating_numeric.t >= 0 /\ df[i].rating_numeric.t <= 50
      /\ df[i].price_for_two_numeric.k = "num"
      /\ df[i].price_for_two_numeric.t >= 0
      /\ df[i].votes_numeric >= 0

-----------------------------------------------------------------------------
(* The order of the steps of a request.                                    *)

\* The steps of a request that has candidates, as the text of the state
\* machine gives them: built, sent and awaiting, then one terminal state.
\* CLIENT (the client object exists) and RESPONDED (the text of a success
\* response is at hand, not parsed yet) are stages on the way.
StatedSteps == {
  <<"CANDIDATES", "BUILT">>, <<"BUILT", "CLIENT">>,
  <<"CLIENT", "AWAITING_RESPONSE">>,
  <<"AWAITING_RESPONSE", "SERVICE_ERROR">>,
  <<"AWAITING_RESPONSE", "RESPONDED">>,
  <<"RESPONDED", "PARSED">>, <<"RESPONDED", "PARSE_ERROR">> }

StatedTerminals == {"PARSED", "SERVICE_ERROR", "PARSE_ERROR"}

\* What holds in every state of a request with candidates, for the set T of
\* terminal states: it ends in T only, the service is called at most once,
\* exactly once before a response or a service error, and never before the
\* client exists; a text is parsed only after a 200 response.
StepInvariant(T) ==
  candidates # <<>> =>
    /\ Ended => pc \in T
    /\ net_calls <= 1
    /\ pc \in {"CANDIDATES", "BUILT", "CLIENT", "CONFIG_ERROR"} => net_calls = 0
    /\ pc \in {"AWAITING_RESPONSE", "RESPONDED", "SERVICE_ERROR", "PARSED",
               "PARSE_ERROR"} => net_calls = 1
    /\ pc \in {"RESPONDED", "PARSED", "PARSE_ERROR"} =>
         svc.kind = "http" /\ svc.status = 200

\* Every step of a request with candidates is one of the steps S, and the
\* only step out of a terminal state is the start of the next request.
StepOrder(S) ==
  (candidates # <<>> /\ pc' # pc) =>
    \/ <<pc, pc'>> \in S
    \/ Ended /\ pc' = "START" /\ candidates' = <<>>

\* C16 as stated: the steps are BUILT, SENT, AWAITING_RESPONSE and then
\* exactly one of PARSED, SERVICE_ERROR, PARSE_ERROR, with no other terminal
\* outcome.
C16_StateMachine ==
  [](StepInvariant(StatedTerminals)) /\ [][StepOrder(StatedSteps)]_vars

\* C16: after BUILT a request with candidates either fails with the
\* configuration error before anything is sent, or is sent, awaits the
\* response and ends in exactly one of PARSED, SERVICE_ERROR, PARSE_ERROR;
\* the text is parsed only after a 200 response, the service is called at
\* most once, and nothing follows a terminal state but the next request.
C16_StateMachineWithConfigError ==
  /\ [](StepInvariant(StatedTerminals \cup {"CONFIG_ERROR"}))
  /\ [][StepOrder(StatedSteps \cup {<<"BUILT", "CONFIG_ERROR">>})]_vars

C16_Witness ==
  /\ pc = "PARSED"
  /\ results # <<>>
  /\ net_calls = 1
  /\ svc.kind = "http"
  /\ svc.status = 200
  /\ http # NoHttp

-----------------------------------------------------------------------------
(* Extraction and the reason of an entry.                                  *)

\* The text is one well-formed JSON object and nothing else.
IsObjectText(b) == JsonLoads(b).ok /\ JsonLoads(b).val.k = "dict"

\* The texts the replies are wrapped around.
WrappedBodies == {ReplyOf(es) : es \in EntrySeqs(1)} \cup OtherBodies

\* C17: when the reply is prose, one well-formed object, prose, the block
\* extracted is exactly that object, and the outcome of the parse is the
\* outcome for the object alone.
C17_ProseIsTolerated ==
  Terminal =>
    \A w \in Wrappers, b \in WrappedBodies :
      (raw_text = w.pre \o b \o w.post /\ IsObjectText(b)) =>
        /\ _extract_json_block(raw_text) = [error |-> NoError, block |-> b]
        /\ [error |-> error, results |-> results] = _parse_llm_response(b, candidates)

-----------------------------------------------------------------------------
(* The index in the prompt and the index in the reply.                     *)

\* The candidate block of the user message.
Listing == messages[2].content.candidate_block

\* The line gives the fields of candidate c: the texts as they are, the votes
\* and the rating read back as numbers, the price as the nearest integer.
Describes(line, c) ==
  /\ line.name = c.name
  /\ line.locality = c.location
  /\ line.cuisines = c.cuisines
  /\ IntOfChars(line.votes) = IntOk(c.votes)
  /\ c.rating.k = "num" => FloatOfChars(line.rating) = FloatOk(c.rating)
  /\ c.price_for_two.k = "nan" => line.price_for_two = <<"n", "a", "n">>
  /\ c.price_for_two.k = "num" =>
       /\ IntOfChars(line.price_for_two).exc = ""
       /\ 10 * IntOfChars(line.price_for_two).v - c.price_for_two.t \in -5..5

\* Line i of the block carries the index i and describes candidates[i].
ListingMatchesCandidates ==
  messages # NoMessages =>
    /\ Len(Listing) = Len(candidates)
    /\ \A i \in 0..(Len(candidates) - 1) :
         /\ IntOfChars(Listing[i + 1].idx) = IntOk(i)
         /\ Describes(Listing[i + 1], candidates[i + 1])

\* The recommendation of an entry with index i holds the candidate that the
\* line with index i describes.
RepliesResolveToListing ==
  (pc = "PARSED" /\ messages # NoMessages /\ HasRecsList) =>
    /\ \A n \in 1..Len(ReplyEntries) :
         ValidInRange(ReplyEntries[n]) =>
           \E k \in 1..Len(results) :
             /\ results[k].restaurant = candidates[IntegerOf(ReplyEntries[n]) + 1]
             /\ IntOfChars(Listing[IntegerOf(ReplyEntries[n]) + 1].idx)
                  = IntOk(IntegerOf(ReplyEntries[n]))
             /\ Describes(Listing[IntegerOf(ReplyEntries[n]) + 1],
                          results[k].restaurant)
    /\ \A k \in 1..Len(results) :
         \E i \in 1..Len(candidates) :
           results[k].restaurant = candidates[i]
           /\ Describes(Listing[i], results[k].restaurant)

\* Between building the prompt and parsing the reply neither the candidate
\* list nor the messages change.
CandidatesKept ==
  pc \in {"BUILT", "CLIENT", "AWAITING_RESPONSE", "RESPONDED"} =>
    candidates' = candidates /\ messages' = messages

\* C18: line i of the candidate listing carries the index i and describes
\* candidates[i], a reply entry with candidate_index i is mapped to that same
\* candidate, and the candidate list is the same from the building of the
\* prompt to the parsing of the reply.
C18_PromptIndexIsParserIndex ==
  /\ [](ListingMatchesCandidates /\ RepliesResolveToListing)
  /\ [][CandidatesKept]_vars

C18_Witness ==
  /\ pc = "PARSED"
  /\ messages # NoMessages
  /\ Len(candidates) >= 2
  /\ Len(results) = 1
  /\ results[1].restaurant = candidates[2]
  /\ Listing[2].idx = <<"1">>
  /\ Listing[2].name = results[1].restaurant.name

\* The reason an entry is to be returned with: the empty string when the
\* field is missing or null, else its value as a string, trimmed.
ExpectedReason(e) ==
  IF ~HasKey(e, "\"reason\"") THEN <<>>
  ELSE LET v == DictGet(e, "\"reason\"", PyNone) IN
       IF v.k = "NoneType" THEN <<>> ELSE Strip(PyStr(v))

\* C19: when every entry of the reply has a valid in-range index, every
\* entry is returned, with its reason coerced to a string and trimmed, and
\* with the empty string when the reason is missing or null.
C19_ReasonCoercedAndTrimmed ==
  (Terminal /\ HasRecsList
     /\ \A n \in 1..Len(ReplyEntries) : ValidInRange(ReplyEntries[n])) =>
    /\ pc = "PARSED"
    /\ Len(results) = Len(ReplyEntries)
    /\ \A n \in 1..Len(results) : results[n].reason = ExpectedReason(ReplyEntries[n])

-----------------------------------------------------------------------------
(* Two concurrent callers of the retrieval engine.  A DataFrame is an      *)
(* object on the heap: its rows and the names of the columns added to the  *)
(* prepared frame.  A caller holds references to frames.  A caller either  *)
(* goes through get_recommendations, which loads a frame of its own, or    *)
(* passes the one frame the process holds to filter_restaurants itself.    *)

Workers == {"w1", "w2"}

\* The frame objects: the one the process holds, and for each caller the
\* frame it loads, the copy made by filter_restaurants, the result of the
\* boolean indexing, and the copy made by rank_restaurants.
Obj(owner, slot) == <<owner, slot>>
Objs ==
  {Obj("process", "df")}
    \cup {Obj(w, sl) : w \in Workers, sl \in {"df", "copy", "selected", "ranked"}}
NoRef == Obj("none", "none")

Frame(rows, columns) == [rows |-> rows, columns |-> columns]
NoFrame == Frame(<<>>, {"unallocated"})
DatasetFrame == Frame(load_prepared_dataframe, {})

\* A variant that returns the frame itself instead of a copy.
DataFrameCopy_Alias(h, src, dst) == [heap |-> h, ref |-> src]

\* DataFrame.copy(): a new object dst with the contents of src.
DataFrameCopy(h, src, dst) ==
  [heap |-> [h EXCEPT ![dst] = h[src]], ref |-> dst]

\* Some filter of filter_restaurants is active: boolean indexing builds a new
\* frame.
AnyFilterActive(p) ==
  \/ p.min_price.some \/ p.max_price.some \/ p.min_rating.some
  \/ Truthy(p.locality)
  \/ Truthy(p.desired_cuisines) /\ CuisineTerms(p.desired_cuisines.v) # <<>>

WorkerPrefs == {
  NoPrefs,
  UserPreferences(None, Some(5000), Some(<<"B", "T", "M">>), None, None),
  UserPreferences(None, None, Some(<<"x">>), None, None),
  UserPreferences(None, None, Some(<<"(">>), None, None) }

Worker(p) ==
  [pc |-> "START", prefs |-> p, df |-> NoRef, filtered |-> NoRef,
   ranked |-> NoRef, candidates |-> <<>>, exc |-> ""]

InitConcurrent ==
  /\ pc = "START"
  /\ prefs = NoPrefs
  /\ df = load_prepared_dataframe
  /\ max_results = max_candidates
  /\ filtered = <<>>
  /\ candidates = <<>>
  /\ messages = NoMessages
  /\ api_key = None
  /\ svc = NoService
  /\ raw_text = <<>>
  /\ results = <<>>
  /\ error = NoError
  /\ net_calls = 0
  /\ http = NoHttp
  /\ seen = {}
  /\ heap = [o \in Objs |-> IF o = Obj("process", "df") THEN DatasetFrame ELSE NoFrame]
  /\ workers \in {[w \in Workers |-> Worker(f[w])] : f \in [Workers -> WorkerPrefs]}

Single == <<pc, prefs, df, max_results, filtered, candidates, messages, api_key,
            svc, raw_text, results, error, net_calls, http, seen>>

\* get_recommendations: df = load_prepared_dataframe(), a frame of the
\* caller's own.
WorkerLoads(w) ==
  /\ workers[w].pc = "START"
  /\ heap' = [heap EXCEPT ![Obj(w, "df")] = DatasetFrame]
  /\ workers' = [workers EXCEPT ![w].pc = "LOADED", ![w].df = Obj(w, "df")]
  /\ UNCHANGED Single

\* A caller that passes the frame the process holds to filter_restaurants.
WorkerIsGiven(w) ==
  /\ workers[w].pc = "START"
  /\ workers' = [workers EXCEPT ![w].pc = "LOADED", ![w].df = Obj("process", "df")]
  /\ UNCHANGED <<Single, heap>>

\* filter_restaurants: filtered = df.copy()
FilterCopies(w) ==
  /\ workers[w].pc = "LOADED"
  /\ LET c == DataFrameCopy(heap, workers[w].df, Obj(w, "copy")) IN
     /\ heap' = c.heap
     /\ workers' = [workers EXCEPT ![w].pc = "COPIED", ![w].filtered = c.ref]
  /\ UNCHANGED Single

\* filter_restaurants: filtered = filtered[...] for each active filter; the
\* indexing builds a new frame and leaves the indexed one as it is.
FilterSelects(w) ==
  /\ workers[w].pc = "COPIED"
  /\ LET src == heap[workers[w].filtered]
         f == filter_restaurants(src.rows, workers[w].prefs)
     IN
     IF f.exc # "" THEN
       /\ workers' = [workers EXCEPT ![w].pc = "FAILED", ![w].exc = f.exc]
       /\ heap' = heap
     ELSE IF AnyFilterActive(workers[w].prefs) THEN
       /\ heap' = [heap EXCEPT ![Obj(w, "selected")] = Frame(f.rows, src.columns)]
       /\ workers' = [workers EXCEPT ![w].pc = "FILTERED",
                                     ![w].filtered = Obj(w, "selected")]
     ELSE
       /\ heap' = heap
       /\ workers' = [workers EXCEPT ![w].pc = "FILTERED"]
  /\ UNCHANGED Single

\* rank_restaurants: if df.empty: return []
RankReturnsEmpty(w) ==
  /\ workers[w].pc = "FILTERED"
  /\ heap[workers[w].filtered].rows = <<>>
  /\ workers' = [workers EXCEPT ![w].pc = "DONE", ![w].candidates = <<>>]
  /\ UNCHANGED <<Single, heap>>

\* rank_restaurants: df = df.copy()
RankCopies(w) ==
  /\ workers[w].pc = "FILTERED"
  /\ heap[workers[w].filtered].rows # <<>>
  /\ LET c == DataFrameCopy(heap, workers[w].filtered, Obj(w, "ranked")) IN
     /\ heap' = c.heap
     /\ workers' = [workers EXCEPT ![w].pc = "RANK_COPIED", ![w].ranked = c.ref]
  /\ UNCHANGED Single

\* rank_restaurants: df["score"] = ..., a column added to the frame in place.
RankAddsScore(w) ==
  /\ workers[w].pc = "RANK_COPIED"
  /\ heap' = [heap EXCEPT ![workers[w].ranked].columns = @ \cup {"score"}]
  /\ workers' = [workers EXCEPT ![w].pc = "SCORED"]
  /\ UNCHANGED Single

\* rank_restaurants: sort_values(...).head(max_results) and the Restaurant
\* objects built from its rows.
RankSorts(w) ==
  /\ workers[w].pc = "SCORED"
  /\ workers' = [workers EXCEPT
       ![w].pc = "DONE",
       ![w].candidates = rank_restaurants(heap[workers[w].ranked].rows, max_results)]
  /\ UNCHANGED <<Single, heap>>

NextConcurrent ==
  \E w \in Workers :
    \/ WorkerLoads(w)
    \/ WorkerIsGiven(w)
    \/ FilterCopies(w)
    \/ FilterSelects(w)
    \/ RankReturnsEmpty(w)
    \/ RankCopies(w)
    \/ RankAddsScore(w)
    \/ RankSorts(w)

SpecConcurrent == InitConcurrent /\ [][NextConcurrent]_vars

\* C20: the frame a caller gives to filter_restaurants and rank_restaurants
\* (the one the process holds, or the one the caller loaded) is never
\* changed, and whatever the other caller does in between, each caller ends
\* with the result it gets when it runs alone.
C20_RequestsDoNotInterfere ==
  /\ heap[Obj("process", "df")] = DatasetFrame
  /\ \A w \in Workers :
       LET alone == get_recommendations(load_prepared_dataframe, workers[w].prefs,
                                        max_results)
       IN
       /\ workers[w].df # NoRef => heap[workers[w].df] = DatasetFrame
       /\ workers[w].pc = "DONE" =>
            alone.exc = "" /\ workers[w].candidates = alone.candidates
       /\ workers[w].pc = "FAILED" => alone.exc = workers[w].exc

\* Both callers were given the frame of the process, one has added the score
\* column to its copy while the other had not finished, and both are done,
\* one of them with candidates.
C20_Witness ==
  /\ \A w \in Workers : workers[w].df = Obj("process", "df") /\ workers[w].pc = "DONE"
  /\ \E w \in Workers :
       /\ workers[w].candidates # <<>>
       /\ "score" \in heap[workers[w].ranked].columns
       /\ workers[w].ranked # workers[w].df
  /\ \E w \in Workers : workers[w].prefs # NoPrefs

-----------------------------------------------------------------------------
(* The score alone: rank_restaurants applied to every frame of two rows    *)
(* whose ratings lie in [0, 5] and whose vote counts are not negative.     *)

InitScore ==
  LET ScoreRates == {
        StrCell(<<"4", ".", "1", "/", "5">>),
        StrCell(<<"3", ".", "9", " ", "/", "5">>),
        StrCell(<<"4">>),
        StrCell(<<"N", "E", "W">>) }
      ScoreVotes == {IntCell(0), IntCell(50), IntCell(100)}
      \* A raw row of the CSV with the given rate and votes cells.
      ScoreRow(nm, rate, votes) ==
        [name |-> <<nm>>, rate |-> rate, votes |-> votes,
         location |-> StrCell(<<"B", "T", "M">>),
         cuisines |-> StrCell(<<"n", "i">>),
         cost |-> StrCell(<<"3", "0", "0">>)]
  IN
  /\ pc = "FILTERED"
  /\ prefs = NoPrefs
  /\ df \in {<<PrepareRow(ScoreRow("P", r1, v1), 1),
               PrepareRow(ScoreRow("Q", r2, v2), 2)>> :
               r1 \in ScoreRates, v1 \in ScoreVotes,
               r2 \in ScoreRates, v2 \in ScoreVotes}
  /\ max_results \in 0..MaxCand
  /\ filtered = df
  /\ candidates = <<>>
  /\ messages = NoMessages
  /\ api_key = None
  /\ svc = NoService
  /\ raw_text = <<>>
  /\ results = <<>>
  /\ error = NoError
  /\ net_calls = 0
  /\ http = NoHttp
  /\ seen = {}
  /\ heap = NoHeap
  /\ workers = NoWorkers

SpecScore == InitScore /\ [][NextRank]_vars

\* The records are within the data ranges: ratings in [0, 5], votes >= 0.
InDataRanges ==
  \A k \in 1..Len(filtered) :
    /\ filtered[k].rating_numeric.k = "num"
    /\ filtered[k].rating_numeric.t >= 0
    /\ filtered[k].rating_numeric.t <= 50
    /\ filtered[k].votes_numeric >= 0

\* C21: rating dominates popularity: among records within the data ranges,
\* a record with a strictly lower rating is never ranked ahead of a record
\* with a higher rating because it has more votes.
C21_RatingDominatesVotes ==
  (pc = "RANKED" /\ InDataRanges) =>
    \A i, j \in 1..Len(candidates) :
      i < j =>
        ~(/\ candidates[i].rating.t < candidates[j].rating.t
          /\ candidates[i].votes > candidates[j].votes)

====
